---- MODULE Spec2Model ----
(***************************************************************************)
(* Model of src/fetch_ud.py: UrbanDictionaryFetcher.                       *)
(*                                                                         *)
(* The storage directory (daily dump files, letter index files, the stats  *)
(* file) is shared state; every fetcher instance has its own seen_defids,  *)
(* new_entries, locals and position in fetch_and_store.  Every listing of a *)
(* directory, every read of the clock, every read of one file, every open  *)
(* for writing (which empties the file) and every write is a step of its   *)
(* own, and the clock can pass midnight between any two steps.  Spec runs  *)
(* one instance at a time (slot 1), each instance being constructed        *)
(* (bootstrap), asked to fetch_and_store one or more times, and ended.     *)
(* SpecPersist runs the persistence of one call on new_entries lists of up *)
(* to three defids; SpecStorage starts Spec on a storage that holds files  *)
(* the program did not write; SpecConc interleaves two instances.          *)
(***************************************************************************)
EXTENDS Naturals, Integers, Sequences, FiniteSets, TLC

\* ------------------------------------------------------------------ bounds
MaxDate == 2        \* calendar dates the clock can show
MaxRuns == 2        \* calls of fetch_and_store over the whole behaviour
MaxBatchLen == 2    \* records in one API response
NumBatches == 2     \* num_batches handed to fetch_and_store

\* ------------------------------------------------------- program constants
max_retries == 3

\* --------------------------------------------------------------- the data
Procs == {1, 2}
DefIds == {1, 2}
Dates == 1..MaxDate

\* Characters of the model's alphabet and what str.upper / str.isalpha /
\* whitespace stripping do on them.
Chars == {"a", "A", "4", " "}
UpperChar(c) == IF c = "a" THEN "A" ELSE c
IsAlpha(c) == c \in {"a", "A"}
IsSpace(c) == c = " "

\* str.upper() of a word (a sequence of characters)
Upper(w) == [i \in 1..Len(w) |-> UpperChar(w[i])]

RECURSIVE LStrip(_)
LStrip(w) == IF w # <<>> /\ IsSpace(Head(w)) THEN LStrip(Tail(w)) ELSE w

RECURSIVE RStrip(_)
RStrip(w) ==
    IF w # <<>> /\ IsSpace(w[Len(w)]) THEN RStrip(SubSeq(w, 1, Len(w) - 1)) ELSE w

\* str.strip()
Strip(w) == RStrip(LStrip(w))

\* Values of written_on: a JSON string, a value json.dumps rejects
\* (TypeError), and a string holding a lone surrogate, which json.dumps
\* escapes but a UTF-8 file refuses (UnicodeEncodeError).
TimeStamp == "2024-01-01"
Unserializable == "<object>"
Surrogate == "\\ud800"
WrittenOn == {TimeStamp, Unserializable, Surrogate}

\* Raw words: one that is stripped to "a" (letter A), one that starts with a
\* digit, one that is stripped to the empty word.
WordA == <<" ", "a">>
Word4 == <<"4", "a">>
WordBlank == <<" ">>
RawWords == {WordA, Word4, WordBlank}

Fields == {"defid", "word", "definition", "example", "written_on"}

FullRecord(id, w, t) ==
    [defid |-> id, word |-> w, definition |-> <<"d", " ">>,
     example |-> <<" ", "e">>, written_on |-> t]

\* f without the key k
Without(f, k) == [x \in (DOMAIN f) \ {k} |-> f[x]]

\* The raw records the API returns in the model: the same word under every
\* defid, a record of defid 1 whose word is blank, the records of defid 2
\* under a digit word with every kind of written_on, and one record per
\* required field that lacks that field.
RawRecords ==
    { FullRecord(id, WordA, TimeStamp) : id \in DefIds }
    \cup { FullRecord(1, WordBlank, TimeStamp) }
    \cup { FullRecord(2, Word4, t) : t \in WrittenOn }
    \cup { Without(FullRecord(1, WordA, TimeStamp), k) : k \in Fields }

\* ------------------------------------------------------------------ files
\* What a reader finds in a file, and the number of bytes the file holds:
\*   "absent"       there is no such file;
\*   "ok"           json.load returns data;
\*   "corrupt"      json.load raises JSONDecodeError (an empty file, a text
\*                  that breaks off, a text followed by the rest of another);
\*   "undecodable"  the bytes are not UTF-8: the read raises
\*                  UnicodeDecodeError, which is no JSONDecodeError;
\*   "null"         the JSON text null: json.load returns None, and the first
\*                  use of it raises TypeError or AttributeError.
Absent == [st |-> "absent", data |-> <<>>, len |-> 0]
Unparseable(n) == [st |-> "corrupt", data |-> <<>>, len |-> n]
Parsed(d, n) == [st |-> "ok", data |-> d, len |-> n]
NotUtf8 == [st |-> "undecodable", data |-> <<>>, len |-> 2]
JsonNull == [st |-> "null", data |-> <<>>, len |-> 4]

\* The read of the file ends in an exception that the handlers of
\* (json.JSONDecodeError, FileNotFoundError) do not catch.
ReadRaises(file) == file.st \in {"undecodable", "null"}

\* ------------------------------------------------------------------ texts
\* The number of characters json.dump(..., indent=2, ensure_ascii=False)
\* writes for the values of the model; they are ASCII, one byte each.
NumLen(n) == IF n < 10 THEN 1 ELSE 2
StrLen(s) == Len(s) + 2

\* the keys of an entry of a dump file (lines 80-85) and of a record of a
\* letter file (lines 145-150), in the order they are written
DumpKeys == <<"defid", "word", "definition", "example", "written_on">>
RecKeys == <<"defid", "definition", "example", "written_on">>

\* a key between its quotes
KeyLen(k) ==
    CASE k = "defid" -> 7
      [] k = "word" -> 6
      [] k = "definition" -> 12
      [] k = "example" -> 9
      [] k = "written_on" -> 12

\* the value of key k (a written_on that reaches a file is the time stamp)
FieldLen(e, k) ==
    IF k = "defid" THEN NumLen(e[k])
    ELSE IF k = "written_on" THEN 12
    ELSE StrLen(e[k])

\* the line `"key": value` of an object, indented by ind
LineLen(e, k, ind) == ind + KeyLen(k) + 2 + FieldLen(e, k)

\* the lines of the first n keys, each followed by ",\n"
RECURSIVE LinesLen(_, _, _, _)
LinesLen(e, keys, ind, n) ==
    IF n = 0 THEN 0
    ELSE LinesLen(e, keys, ind, n - 1) + LineLen(e, keys[n], ind) + 2

\* an object whose braces are indented by ind
ObjLen(e, keys, ind) == 2 + (LinesLen(e, keys, ind + 2, Len(keys)) - 2) + 1 + ind + 1

\* the offset, in the text of the object, at which the value of keys[i] starts
ValueStart(e, keys, ind, i) ==
    2 + LinesLen(e, keys, ind + 2, i - 1) + (ind + 2) + KeyLen(keys[i]) + 2

\* the first n objects of a list, each with its indentation and ",\n"
RECURSIVE ItemsLen(_, _, _, _)
ItemsLen(list, keys, ind, n) ==
    IF n = 0 THEN 0
    ELSE ItemsLen(list, keys, ind, n - 1) + ind + ObjLen(list[n], keys, ind) + 2

\* a list of objects whose brackets are indented by ind
ListLen(list, keys, ind) ==
    IF list = <<>> THEN 2
    ELSE 2 + (ItemsLen(list, keys, ind + 2, Len(list)) - 2) + 1 + ind + 1

\* the offset, in the text of the list, at which the value of keys[i] of its
\* j-th object starts
ListValueStart(list, keys, ind, j, i) ==
    2 + ItemsLen(list, keys, ind + 2, j - 1) + (ind + 2)
      + ValueStart(list[j], keys, ind + 2, i)

\* the text of a daily dump file
DumpTextLen(data) == ListLen(data, DumpKeys, 0)

\* The words of a letter file in the order of its text.  The letter files of
\* the model hold one word each (the words of RawWords differ in their
\* letter), so the order the words have in a file is not kept.
RECURSIVE SetToSeq(_)
SetToSeq(S) ==
    IF S = {} THEN <<>>
    ELSE LET x == CHOOSE y \in S : TRUE IN <<x>> \o SetToSeq(S \ {x})

WordSeq(d) == SetToSeq(DOMAIN d)

\* the first n words of ws with their lists, each followed by ",\n"
RECURSIVE WordsLen(_, _, _)
WordsLen(d, ws, n) ==
    IF n = 0 THEN 0
    ELSE WordsLen(d, ws, n - 1) + 2 + StrLen(ws[n]) + 2
           + ListLen(d[ws[n]], RecKeys, 2) + 2

\* the text of a letter file
DictTextLen(d) ==
    IF DOMAIN d = {} THEN 2
    ELSE 2 + (WordsLen(d, WordSeq(d), Len(WordSeq(d))) - 2) + 2

\* the offset, in the text of a letter file, at which the value of
\* RecKeys[i] of the j-th record of its m-th word starts
DictValueStart(d, ws, m, j, i) ==
    2 + WordsLen(d, ws, m - 1) + 2 + StrLen(ws[m]) + 2
      + ListValueStart(d[ws[m]], RecKeys, 2, j, i)

\* A dump file and a letter file as json.dump writes them in full.
DumpFile(data) == Parsed(data, DumpTextLen(data))
LetterFile(d) == Parsed(d, DictTextLen(d))

CatchAll == "OTHER"
Letters == { UpperChar(c) : c \in {x \in Chars : IsAlpha(UpperChar(x))} } \cup {CatchAll}

VARIABLES
    dumps,          \* data/<date>.json, date -> file (a sequence of entries)
    dict,           \* dictionary/<letter>.json, letter -> file (word -> records)
    stats,          \* stats.json
    today,          \* the date datetime.now() shows
    runs,           \* calls of fetch_and_store begun so far
    pc,             \* per instance: where it is
    seen_defids,    \* per instance: self.seen_defids
    load_warnings,  \* per instance: warnings logged by the last _load_existing_defids
    new_entries,    \* per instance: new_entries of fetch_and_store
    batch_i,        \* per instance: i of the batch loop
    attempts,       \* per instance: requests.get calls of the _make_request in
                    \* progress, or of the one that has just returned None
    sleeps,         \* per instance: retry_delay sleeps of that _make_request
    remaining,      \* per instance: records of the response not yet read
    ret,            \* per instance: value the last call of fetch_and_store
                    \* returned, 0 while a call is running
    dropped,        \* per instance: records of the current batch that
                    \* _extract_entry_data refused (its logger.debug lines)
    unsaved,        \* per instance: defids admitted in a call whose daily dump
                    \* write was skipped because _validate_json failed
    save_warnings,  \* per instance: warnings logged by the persistence
                    \* operations of the current fetch_and_store
    seen_at_call,   \* per instance: seen_defids when fetch_and_store was entered
    disk_at_call,   \* per instance: the dump and letter files when
                    \* fetch_and_store was entered
    dump_date,      \* per instance: `today` of _save_to_daily_dump (0: not read)
    dump_buf,       \* per instance: existing_data of _save_to_daily_dump
    letter_todo,    \* per instance: letters of letter_groups not yet handled
    letter_buf,     \* per instance: existing_dict of the letter being handled
    stats_buf,      \* per instance: the stats dict of _update_stats_file
    listing         \* per instance: the file names os.listdir returned that the
                    \* loop over them has not reached yet

vars == <<dumps, dict, stats, today, runs, pc, seen_defids, load_warnings,
          new_entries, batch_i, attempts, sleeps, remaining, ret, dropped, unsaved,
          save_warnings, seen_at_call, disk_at_call, dump_date, dump_buf,
          letter_todo, letter_buf, stats_buf, listing>>

disk == <<dumps, dict, stats>>

\* the locals of the operations on the files
persist == <<dump_date, dump_buf, letter_todo, letter_buf, stats_buf, listing>>

\* ------------------------------------------------- _load_existing_defids
\* The defids of a parsed dump file ('defid' in entry).
RECURSIVE FileDefids(_)
FileDefids(data) ==
    IF data = <<>> THEN {}
    ELSE (IF "defid" \in DOMAIN Head(data) THEN {Head(data).defid} ELSE {})
         \cup FileDefids(Tail(data))

\* os.listdir of a directory, filtered by filename.endswith('.json'): the
\* names of the files that are there at that moment, in no particular order.
\* Mutant of ListDir: no file name passes the filter.
MutListNothing(files) == {}

ListDir(files) == {k \in DOMAIN files : files[k].st # "absent"}

\* The body of the loop over the file names (lines 50-60) on one file: a file
\* that parses adds its defids; a file json.load rejects with JSONDecodeError
\* (or that is gone) logs one warning and is skipped; a file whose read
\* raises anything else ends the loop, the exception leaving
\* _load_existing_defids.  acc is [seen, warnings, raised].
\* Mutant of LoadFile: the set is assigned, not added to.
MutLoadFileReplaces(acc, file) ==
    IF file.st = "ok"
    THEN [seen |-> FileDefids(file.data), warnings |-> acc.warnings,
          raised |-> FALSE]
    ELSE IF ReadRaises(file)
    THEN [seen |-> acc.seen, warnings |-> acc.warnings, raised |-> TRUE]
    ELSE [seen |-> acc.seen, warnings |-> acc.warnings + 1, raised |-> FALSE]

LoadFile(acc, file) ==
    IF file.st = "ok"
    THEN [seen |-> acc.seen \cup FileDefids(file.data), warnings |-> acc.warnings,
          raised |-> FALSE]
    ELSE IF ReadRaises(file)
    THEN [seen |-> acc.seen, warnings |-> acc.warnings, raised |-> TRUE]
    ELSE [seen |-> acc.seen, warnings |-> acc.warnings + 1, raised |-> FALSE]

\* The orders in which os.listdir can return the names of the files: any.
ListOrders(files) ==
    LET names == ListDir(files)
        n == Cardinality(names)
    IN {o \in [1..n -> names] : \A i, j \in 1..n : i # j => o[i] # o[j]}

\* The loop over the names in the order os.listdir returned them, on files
\* nothing else touches meanwhile; it ends at the first read that raises.
RECURSIVE LoadFiles(_, _, _)
LoadFiles(files, order, acc) ==
    IF order = <<>> \/ acc.raised THEN acc
    ELSE LoadFiles(files, Tail(order), LoadFile(acc, files[Head(order)]))

\* The whole call on a directory nothing else touches meanwhile, whose
\* names os.listdir returned in the given order.
LoadExistingDefids(seen, files, order) ==
    LoadFiles(files, order, [seen |-> seen, warnings |-> 0, raised |-> FALSE])

\* ---------------------------------------------------- _extract_entry_data
\* The entry of a raw record, as a sequence of one entry, or <<>> for None
\* (a KeyError on the first missing field).
\* Mutant of ExtractEntryData: a missing example is read with a default
\* (raw_entry.get('example', '')) and raises no KeyError.
MutExtractDefaultsExample(raw) ==
    IF {"defid", "word", "definition", "written_on"} \subseteq DOMAIN raw
    THEN << [defid |-> raw.defid,
             word |-> Strip(raw.word),
             definition |-> Strip(raw.definition),
             example |-> IF "example" \in DOMAIN raw THEN Strip(raw.example) ELSE <<>>,
             written_on |-> raw.written_on] >>
    ELSE <<>>

ExtractEntryData(raw) ==
    IF "defid" \notin DOMAIN raw THEN <<>>
    ELSE IF "word" \notin DOMAIN raw THEN <<>>
    ELSE IF "definition" \notin DOMAIN raw THEN <<>>
    ELSE IF "example" \notin DOMAIN raw THEN <<>>
    ELSE IF "written_on" \notin DOMAIN raw THEN <<>>
    ELSE << [defid |-> raw.defid,
             word |-> Strip(raw.word),
             definition |-> Strip(raw.definition),
             example |-> Strip(raw.example),
             written_on |-> raw.written_on] >>

\* ------------------------------------------------------------ _validate_json
\* json.dumps succeeds on a value (the written_on of an entry or record).
Dumpable(t) == t # Unserializable
\* A UTF-8 text file accepts the value as json.dump(ensure_ascii=False) writes it.
Encodable(t) == t # Surrogate

ValidateJsonList(data) == \A i \in 1..Len(data) : Dumpable(data[i].written_on)
EncodableList(data) == \A i \in 1..Len(data) : Encodable(data[i].written_on)

ValidateJsonDict(d) == \A w \in DOMAIN d : ValidateJsonList(d[w])
EncodableDict(d) == \A w \in DOMAIN d : EncodableList(d[w])

\* ------------------------------------------------------------ json.dump
\* A file that open(filepath, 'w') has just emptied: json.load rejects it.
Truncated == Unparseable(0)

\* the first object of a list that holds a value the file cannot encode
FirstBad(list) ==
    CHOOSE k \in 1..Len(list) :
        /\ ~Encodable(list[k].written_on)
        /\ \A j \in 1..(k - 1) : Encodable(list[j].written_on)

\* json.dump hands the text to the file piece by piece; the piece of the
\* value that cannot be encoded raises, and closing the file writes the
\* pieces before it: the text up to the value of written_on (the last key)
\* of the first such object.
PartialListLen(list, keys, ind) ==
    ListValueStart(list, keys, ind, FirstBad(list), Len(keys))

\* What json.dump leaves in a dump file that is empty when its text arrives:
\* the list, or the partial, unparseable text.
WriteList(data) ==
    IF EncodableList(data) THEN DumpFile(data)
    ELSE Unparseable(PartialListLen(data, DumpKeys, 0))

\* the place of key k in keys
KeyIndex(keys, k) == CHOOSE n \in 1..Len(keys) : keys[n] = k

\* The object a reader finds where the partial text of the object mine runs
\* into the text of the object theirs at the value of keys[i]: the keys of
\* mine up to keys[i], the last key with the value found there, then the
\* keys of theirs after keys[i], of which a repeated key replaces the
\* earlier one.
Splice(mine, theirs, keys, i) ==
    [k \in DOMAIN mine |->
        IF k = keys[Len(keys)] \/ KeyIndex(keys, k) > i THEN theirs[k] ELSE mine[k]]

\* The places <<j, i>> of a list whose value a reader finds at offset n of
\* its text: the value starts there, or one character on, after the space
\* that follows the colon of its key.
StartsAt(list, keys, ind, n) ==
    {x \in (1..Len(list)) \X (1..Len(keys)) :
        ListValueStart(list, keys, ind, x[1], x[2]) \in {n, n + 1}}

\* What a reader parses from the partial text of the list mine followed by
\* what the longer text of the list theirs holds beyond its end: a list when
\* the partial text ends where a value of theirs starts or on the space
\* before it, else nothing (<<>>).
SplicedList(mine, theirs, keys, ind) ==
    LET k == FirstBad(mine)
        at == StartsAt(theirs, keys, ind, PartialListLen(mine, keys, ind))
    IN IF at = {} THEN <<>>
       ELSE LET x == CHOOSE y \in at : TRUE
            IN SubSeq(mine, 1, k - 1)
                 \o <<Splice(mine[k], theirs[x[1]], keys, x[2])>>
                 \o SubSeq(theirs, x[1] + 1, Len(theirs))

\* The dump file after json.dump has written data through a descriptor that
\* was opened before the file got the content cur: the text is written from
\* offset 0 over what is there, and what is there beyond its end stays.  A
\* full text followed by anything is unparseable.
DumpAfterWrite(cur, data) ==
    LET mine == WriteList(data)
    IN IF cur.len <= mine.len THEN mine
       ELSE IF EncodableList(data) \/ cur.st # "ok" THEN Unparseable(cur.len)
       ELSE LET spliced == SplicedList(data, cur.data, DumpKeys, 0)
            IN IF spliced = <<>> THEN Unparseable(cur.len)
               ELSE Parsed(spliced, cur.len)

\* ------------------------------------------------------ _save_to_daily_dump
\* existing_data as lines 105-111 leave it: the parsed list, or [] when the
\* file is absent or json.load rejects it.
ExistingData(file) == IF file.st = "ok" THEN file.data ELSE <<>>

\* existing_data after existing_data.extend(entries)
MergeDump(file, entries) == ExistingData(file) \o entries

\* The whole call on a file nothing else touches between its read and its
\* write: the file after the merge, whether the file was opened for writing,
\* and whether an exception left the call (from the read, lines 108-113, or
\* from the write, line 117).
SaveToDailyDump(file, entries) ==
    IF entries = <<>> THEN [file |-> file, written |-> FALSE, raised |-> FALSE]
    ELSE IF ReadRaises(file)
    THEN [file |-> file, written |-> FALSE, raised |-> TRUE]
    ELSE LET merged == MergeDump(file, entries)
         IN IF ~ValidateJsonList(merged)
            THEN [file |-> file, written |-> FALSE, raised |-> FALSE]
            ELSE [file |-> WriteList(merged), written |-> TRUE,
                  raised |-> ~EncodableList(merged)]

\* The entries a dump file holds for a reader: those of the parsed list, none
\* when the file is absent or does not parse.
DumpLen(file) == IF file.st = "ok" THEN Len(file.data) ELSE 0

\* The logger.warning calls of _save_to_daily_dump: it has none, neither in
\* the handler of a failed load (lines 110-111) nor where a failed
\* validation skips the write (line 115).
DumpMergeWarnings(file, entries) == 0

\* ----------------------------------------------- _save_to_alphabetical_dict
\* first_letter of an entry that has a non-empty word
FirstLetter(word) ==
    LET up == Upper(word)
    IN IF IsAlpha(up[1]) THEN up[1] ELSE CatchAll

\* letter_groups: the letters in the order they are first met, and the
\* entries of each.  An entry whose word is empty joins no group.
RECURSIVE LetterGroups(_, _)
LetterGroups(entries, acc) ==
    IF entries = <<>> THEN acc
    ELSE LET entry == Head(entries)
             word == Upper(entry.word)
         IN IF word = <<>> THEN LetterGroups(Tail(entries), acc)
            ELSE LET first_letter == FirstLetter(entry.word)
                     known == \E i \in 1..Len(acc.order) : acc.order[i] = first_letter
                     order == IF known THEN acc.order ELSE Append(acc.order, first_letter)
                     old == IF known THEN acc.groups[first_letter] ELSE <<>>
                     groups == [l \in (DOMAIN acc.groups) \cup {first_letter} |->
                                   IF l = first_letter THEN Append(old, entry)
                                   ELSE acc.groups[l]]
                 IN LetterGroups(Tail(entries), [order |-> order, groups |-> groups])

NoGroups == [order |-> <<>>, groups |-> <<>>]

EntryData(entry) ==
    [defid |-> entry.defid, definition |-> entry.definition,
     example |-> entry.example, written_on |-> entry.written_on]

\* existing_dict after the entries of one letter are appended under their words
RECURSIVE MergeLetter(_, _)
MergeLetter(existing_dict, letter_entries) ==
    IF letter_entries = <<>> THEN existing_dict
    ELSE LET entry == Head(letter_entries)
             word == entry.word
             old == IF word \in DOMAIN existing_dict THEN existing_dict[word] ELSE <<>>
             d == [w \in (DOMAIN existing_dict) \cup {word} |->
                      IF w = word THEN Append(old, EntryData(entry))
                      ELSE existing_dict[w]]
         IN MergeLetter(d, Tail(letter_entries))

\* existing_dict as lines 135-141 leave it: the parsed object, or {} when the
\* file is absent or json.load rejects it.
ExistingDict(file) == IF file.st = "ok" THEN file.data ELSE <<>>

\* the place, among the words ws of d, of the first word whose list holds a
\* value the file cannot encode
FirstBadWord(d, ws) ==
    CHOOSE m \in 1..Len(ws) :
        /\ ~EncodableList(d[ws[m]])
        /\ \A n \in 1..(m - 1) : EncodableList(d[ws[n]])

\* the text json.dump gets into a letter file before the value that cannot
\* be encoded raises
PartialDictLen(d) ==
    LET ws == WordSeq(d)
        m == FirstBadWord(d, ws)
    IN DictValueStart(d, ws, m, FirstBad(d[ws[m]]), Len(RecKeys))

\* What json.dump leaves in a letter file that is empty when its text arrives.
WriteDict(d) ==
    IF EncodableDict(d) THEN LetterFile(d) ELSE Unparseable(PartialDictLen(d))

\* The places <<m, j, i>> of a letter file's words ws whose value, a value
\* of a record, a reader finds at offset n of its text: the value starts
\* there, or one character on, after the space that follows the colon.
DictStartsAt(d, ws, n) ==
    UNION { { <<m, y[1], y[2]>> :
                 y \in {z \in (1..Len(d[ws[m]])) \X (1..Len(RecKeys)) :
                           DictValueStart(d, ws, m, z[1], z[2]) \in {n, n + 1}} } :
            m \in 1..Len(ws) }

\* What a reader parses from the partial text of mine followed by what the
\* longer text of theirs holds beyond its end: the words of mine before the
\* one that broke off, that word with the list the two texts make up, and
\* the words of theirs after the place the partial text ends at, of which a
\* repeated word replaces the earlier one; nothing (<<>>) when the partial
\* text ends neither where a value of a record of theirs starts nor on the
\* space before it.
SplicedDict(mine, theirs) ==
    LET ws == WordSeq(mine)
        mp == FirstBadWord(mine, ws)
        k == FirstBad(mine[ws[mp]])
        wt == WordSeq(theirs)
        at == DictStartsAt(theirs, wt, PartialDictLen(mine))
    IN IF at = {} THEN <<>>
       ELSE LET x == CHOOSE y \in at : TRUE
                list == SubSeq(mine[ws[mp]], 1, k - 1)
                          \o <<Splice(mine[ws[mp]][k], theirs[wt[x[1]]][x[2]],
                                       RecKeys, x[3])>>
                          \o SubSeq(theirs[wt[x[1]]], x[2] + 1, Len(theirs[wt[x[1]]]))
                before == {ws[n] : n \in 1..(mp - 1)}
                after == {wt[n] : n \in (x[1] + 1)..Len(wt)}
            IN [w \in before \cup {ws[mp]} \cup after |->
                   IF w \in after THEN theirs[w]
                   ELSE IF w = ws[mp] THEN list
                   ELSE mine[w]]

\* The letter file after json.dump has written d through a descriptor that
\* was opened before the file got the content cur.
DictAfterWrite(cur, d) ==
    LET mine == WriteDict(d)
    IN IF cur.len <= mine.len THEN mine
       ELSE IF EncodableDict(d) \/ cur.st # "ok" THEN Unparseable(cur.len)
       ELSE LET spliced == SplicedDict(d, cur.data)
            IN IF spliced = <<>> THEN Unparseable(cur.len)
               ELSE Parsed(spliced, cur.len)

\* One letter's file after its merge, and whether an exception left the
\* loop (from the read, lines 138-154, or from the write, line 158), when
\* nothing else touches the file between its read and its write.
SaveLetter(file, letter_entries) ==
    IF ReadRaises(file) THEN [file |-> file, raised |-> TRUE]
    ELSE LET merged == MergeLetter(ExistingDict(file), letter_entries)
         IN IF ~ValidateJsonDict(merged) THEN [file |-> file, raised |-> FALSE]
            ELSE [file |-> WriteDict(merged), raised |-> ~EncodableDict(merged)]

\* The loop over letter_groups.items(): it ends at the first write that raises.
RECURSIVE SaveLetters(_, _, _)
SaveLetters(files, order, groups) ==
    IF order = <<>> THEN [files |-> files, raised |-> FALSE]
    ELSE LET letter == Head(order)
             r == SaveLetter(files[letter], groups[letter])
             after == [files EXCEPT ![letter] = r.file]
         IN IF r.raised THEN [files |-> after, raised |-> TRUE]
            ELSE SaveLetters(after, Tail(order), groups)

SaveToAlphabeticalDict(files, entries) ==
    IF entries = <<>> THEN [files |-> files, raised |-> FALSE]
    ELSE LET lg == LetterGroups(entries, NoGroups)
         IN SaveLetters(files, lg.order, lg.groups)

\* The logger.warning calls of _save_to_alphabetical_dict: it has none,
\* neither in the handler of a failed load (lines 140-141) nor where a failed
\* validation skips the write (line 156).
LetterMergeWarnings(files, entries) == 0

\* --------------------------------------------------------- _update_stats_file
RECURSIVE SumLens(_, _)
SumLens(d, ws) ==
    IF ws = {} THEN 0
    ELSE LET w == CHOOSE x \in ws : TRUE
         IN Len(d[w]) + SumLens(d, ws \ {w})

\* f with the value v under the key k
With(f, k, v) == [x \in (DOMAIN f) \cup {k} |-> IF x = k THEN v ELSE f[x]]

\* The lengths of datetime.now().isoformat(), line 193: 19 characters when
\* the clock shows a whole second (microsecond 0), else 26.
IsoLens == {19, 26}

\* The stats dict as lines 192-199 build it; of last_updated, the length.
StatsInit(seen, iso) ==
    [last_updated |-> iso,
     total_unique_entries |-> Cardinality(seen),
     daily_files |-> 0,
     dictionary_files |-> 0,
     entries_by_letter |-> <<>>,
     daily_breakdown |-> <<>>]

\* lines 203-212 on one dump file of the listing: the file is counted, and
\* its length is recorded when it parses.
CountDump(acc, date, file) ==
    [acc EXCEPT !.daily_files = @ + 1,
                !.daily_breakdown = IF file.st = "ok"
                                    THEN With(@, date, Len(file.data)) ELSE @]

\* lines 216-230 on one letter file of the listing: the file is counted, and
\* its words and definitions are recorded when it parses.
CountLetter(acc, letter, file) ==
    [acc EXCEPT !.dictionary_files = @ + 1,
                !.entries_by_letter =
                    IF file.st = "ok"
                    THEN With(@, letter,
                              [words |-> Cardinality(DOMAIN file.data),
                               definitions |-> SumLens(file.data, DOMAIN file.data)])
                    ELSE @]

\* the name of a letter file and of a dump file without '.json'
LetterLen(l) == IF l = CatchAll THEN 5 ELSE 1
DateLen == 10

RECURSIVE LetterStatsLen(_, _)
\* the objects of entries_by_letter, each with its key and ",\n"
LetterStatsLen(f, keys) ==
    IF keys = {} THEN 0
    ELSE LET l == CHOOSE x \in keys : TRUE
         IN 4 + (LetterLen(l) + 2) + 2
              + (2 + (6 + 9 + NumLen(f[l].words)) + 2
                   + (6 + 15 + NumLen(f[l].definitions)) + 1 + 4 + 1)
              + 2 + LetterStatsLen(f, keys \ {l})

RECURSIVE DayStatsLen(_, _)
\* the lines of daily_breakdown, each with ",\n"
DayStatsLen(f, keys) ==
    IF keys = {} THEN 0
    ELSE LET d == CHOOSE x \in keys : TRUE
         IN 4 + (DateLen + 2) + 2 + NumLen(f[d]) + 2 + DayStatsLen(f, keys \ {d})

\* an object of the stats dict, after its key: {} or its lines in braces
MapLen(n) == IF n = 0 THEN 2 ELSE 2 + (n - 2) + 1 + 2 + 1

\* The text of the stats file.
StatsTextLen(acc) ==
    2 + (2 + 16 + (acc.last_updated + 2)) + 2
      + (2 + 24 + NumLen(acc.total_unique_entries)) + 2
      + (2 + 15 + NumLen(acc.daily_files)) + 2
      + (2 + 20 + NumLen(acc.dictionary_files)) + 2
      + (2 + 21 + MapLen(LetterStatsLen(acc.entries_by_letter,
                                        DOMAIN acc.entries_by_letter))) + 2
      + (2 + 19 + MapLen(DayStatsLen(acc.daily_breakdown,
                                     DOMAIN acc.daily_breakdown)))
      + 2

\* The stats file json.dump writes from the stats dict.
StatsFile(acc) ==
    [st |-> "ok",
     total_unique_entries |-> acc.total_unique_entries,
     daily_files |-> acc.daily_files,
     dictionary_files |-> acc.dictionary_files,
     daily_breakdown |-> acc.daily_breakdown,
     entries_by_letter |-> acc.entries_by_letter,
     len |-> StatsTextLen(acc)]

\* A stats file no reader can parse, of n bytes.
UnparseableStats(n) == [st |-> "corrupt", len |-> n]

\* The stats file after json.dump has written the stats dict through a
\* descriptor that was opened before the file got the content cur.
StatsAfterWrite(cur, acc) ==
    IF cur.len <= StatsTextLen(acc) THEN StatsFile(acc)
    ELSE UnparseableStats(cur.len)

\* The two loops, on directories nothing else touches meanwhile.
RECURSIVE CountDumps(_, _, _)
CountDumps(dfiles, todo, acc) ==
    IF todo = {} THEN acc
    ELSE LET d == CHOOSE x \in todo : TRUE
         IN CountDumps(dfiles, todo \ {d}, CountDump(acc, d, dfiles[d]))

RECURSIVE CountLetters(_, _, _)
CountLetters(lfiles, todo, acc) ==
    IF todo = {} THEN acc
    ELSE LET l == CHOOSE x \in todo : TRUE
         IN CountLetters(lfiles, todo \ {l}, CountLetter(acc, l, lfiles[l]))

\* The whole computation on directories nothing else touches meanwhile.
StatsOf(seen, dfiles, lfiles, iso) ==
    StatsFile(CountLetters(lfiles, ListDir(lfiles),
                           CountDumps(dfiles, ListDir(dfiles), StatsInit(seen, iso))))

\* One of the files the two loops read raises what their handlers do not
\* catch: line 236 catches it and nothing is written.
StatsRaises(dfiles, lfiles) ==
    \/ \E d \in ListDir(dfiles) : ReadRaises(dfiles[d])
    \/ \E l \in ListDir(lfiles) : ReadRaises(lfiles[l])

NoStats == [st |-> "absent", len |-> 0]
\* the stats file open('stats.json', 'w') has just emptied
PartialStats == UnparseableStats(0)

\* The storage as fetch_and_store found it when it was entered.
Snapshot(dfiles, lfiles) == [dumps |-> dfiles, dict |-> lfiles]
NoSnapshot == Snapshot([d \in Dates |-> Absent], [l \in Letters |-> Absent])

\* ------------------------------------------------------------------- Init
\* Empty storage, no instance started.
Init ==
    /\ dumps = [d \in Dates |-> Absent]
    /\ dict = [l \in Letters |-> Absent]
    /\ stats = NoStats
    /\ today = 1
    /\ runs = 0
    /\ pc = [p \in Procs |-> "idle"]
    /\ seen_defids = [p \in Procs |-> {}]
    /\ load_warnings = [p \in Procs |-> 0]
    /\ new_entries = [p \in Procs |-> <<>>]
    /\ batch_i = [p \in Procs |-> 0]
    /\ attempts = [p \in Procs |-> 0]
    /\ sleeps = [p \in Procs |-> 0]
    /\ remaining = [p \in Procs |-> 0]
    /\ ret = [p \in Procs |-> 0]
    /\ dropped = [p \in Procs |-> 0]
    /\ unsaved = [p \in Procs |-> {}]
    /\ save_warnings = [p \in Procs |-> 0]
    /\ seen_at_call = [p \in Procs |-> {}]
    /\ disk_at_call = [p \in Procs |-> NoSnapshot]
    /\ dump_date = [p \in Procs |-> 0]
    /\ dump_buf = [p \in Procs |-> <<>>]
    /\ letter_todo = [p \in Procs |-> <<>>]
    /\ letter_buf = [p \in Procs |-> <<>>]
    /\ stats_buf = [p \in Procs |-> <<>>]
    /\ listing = [p \in Procs |-> {}]

\* ---------------------------------------------------------------- actions
\* Where an instance stands inside the loop of _load_existing_defids: called
\* by __init__ (line 27), or called again on a constructed instance.
LoadPcs == {"init_load", "load"}

\* __init__ up to os.listdir (line 48): a fresh instance with an empty
\* seen_defids, and the names of the dump files that are there.  With no file
\* to read _load_existing_defids returns at once.
Start(p) ==
    /\ pc[p] = "idle"
    /\ seen_defids' = [seen_defids EXCEPT ![p] = {}]
    /\ load_warnings' = [load_warnings EXCEPT ![p] = 0]
    /\ listing' = [listing EXCEPT ![p] = ListDir(dumps)]
    /\ pc' = [pc EXCEPT ![p] = IF ListDir(dumps) = {} THEN "ready" ELSE "init_load"]
    /\ UNCHANGED <<dumps, dict, stats, today, runs, new_entries, batch_i,
                   attempts, sleeps, remaining, ret, dropped, unsaved,
                   save_warnings, seen_at_call, disk_at_call, dump_date,
                   dump_buf, letter_todo, letter_buf, stats_buf>>

\* _load_existing_defids called again on an instance that is constructed and
\* is not inside fetch_and_store, up to os.listdir (line 48).
Reload(p) ==
    /\ pc[p] \in {"ready", "done"}
    /\ load_warnings' = [load_warnings EXCEPT ![p] = 0]
    /\ listing' = [listing EXCEPT ![p] = ListDir(dumps)]
    /\ pc' = [pc EXCEPT ![p] = IF ListDir(dumps) = {} THEN "ready" ELSE "load"]
    /\ UNCHANGED <<dumps, dict, stats, today, runs, seen_defids, new_entries,
                   batch_i, attempts, sleeps, remaining, ret, dropped, unsaved,
                   save_warnings, seen_at_call, disk_at_call, dump_date,
                   dump_buf, letter_todo, letter_buf, stats_buf>>

\* lines 49-60 for the next file name of the listing: the file is opened and
\* read as it is now.  After the last name _load_existing_defids returns; a
\* read that raises what line 58 does not catch leaves it, and its caller,
\* by that exception.
LoadRead(p) ==
    /\ pc[p] \in LoadPcs
    /\ \E d \in listing[p] :
          LET r == LoadFile([seen |-> seen_defids[p], warnings |-> load_warnings[p],
                             raised |-> FALSE],
                            dumps[d])
          IN /\ seen_defids' = [seen_defids EXCEPT ![p] = r.seen]
             /\ load_warnings' = [load_warnings EXCEPT ![p] = r.warnings]
             /\ listing' = [listing EXCEPT ![p] = @ \ {d}]
             /\ pc' = [pc EXCEPT ![p] = IF r.raised THEN "crashed"
                                         ELSE IF listing[p] = {d} THEN "ready"
                                         ELSE @]
    /\ UNCHANGED <<dumps, dict, stats, today, runs, new_entries, batch_i,
                   attempts, sleeps, remaining, ret, dropped, unsaved,
                   save_warnings, seen_at_call, disk_at_call, dump_date,
                   dump_buf, letter_todo, letter_buf, stats_buf>>

\* fetch_and_store is entered: new_entries = [], the batch loop at i = 0.
CallFetchAndStore(p) ==
    /\ pc[p] \in {"ready", "done"}
    /\ runs < MaxRuns
    /\ runs' = runs + 1
    /\ new_entries' = [new_entries EXCEPT ![p] = <<>>]
    /\ batch_i' = [batch_i EXCEPT ![p] = 0]
    /\ attempts' = [attempts EXCEPT ![p] = 0]
    /\ sleeps' = [sleeps EXCEPT ![p] = 0]
    /\ remaining' = [remaining EXCEPT ![p] = 0]
    /\ pc' = [pc EXCEPT ![p] = "request"]
    /\ dropped' = [dropped EXCEPT ![p] = 0]
    /\ save_warnings' = [save_warnings EXCEPT ![p] = 0]
    /\ seen_at_call' = [seen_at_call EXCEPT ![p] = seen_defids[p]]
    /\ disk_at_call' = [disk_at_call EXCEPT ![p] = Snapshot(dumps, dict)]
    /\ dump_date' = [dump_date EXCEPT ![p] = 0]
    /\ ret' = [ret EXCEPT ![p] = 0]
    /\ UNCHANGED <<dumps, dict, stats, today, seen_defids, load_warnings,
                   unsaved, dump_buf, letter_todo, letter_buf, stats_buf, listing>>

\* _make_request: an attempt fails and is not the last one; sleep retry_delay.
RequestFails(p) ==
    /\ pc[p] = "request"
    /\ attempts[p] < max_retries - 1
    /\ attempts' = [attempts EXCEPT ![p] = @ + 1]
    /\ sleeps' = [sleeps EXCEPT ![p] = @ + 1]
    /\ UNCHANGED <<dumps, dict, stats, today, runs, pc, seen_defids,
                   load_warnings, new_entries, batch_i, remaining, ret, dropped, unsaved,
                   save_warnings, seen_at_call, disk_at_call, persist>>

\* Mutant of RequestGivesUp: the retry delay is slept after the last attempt too.
MutGivesUpAfterSleep(p) ==
    /\ pc[p] = "request"
    /\ attempts[p] = max_retries - 1
    /\ attempts' = [attempts EXCEPT ![p] = @ + 1]
    /\ sleeps' = [sleeps EXCEPT ![p] = @ + 1]
    /\ pc' = [pc EXCEPT ![p] = "resp_none"]
    /\ UNCHANGED <<dumps, dict, stats, today, runs, seen_defids, load_warnings,
                   new_entries, batch_i, remaining, ret, dropped, unsaved,
                   save_warnings, seen_at_call, disk_at_call, persist>>

\* _make_request: the last attempt fails; it returns None.
RequestGivesUp(p) ==
    /\ pc[p] = "request"
    /\ attempts[p] = max_retries - 1
    /\ attempts' = [attempts EXCEPT ![p] = @ + 1]
    /\ pc' = [pc EXCEPT ![p] = "resp_none"]
    /\ UNCHANGED <<dumps, dict, stats, today, runs, seen_defids, load_warnings,
                   new_entries, batch_i, sleeps, remaining, ret, dropped, unsaved,
                   save_warnings, seen_at_call, disk_at_call, persist>>

\* _make_request: an attempt succeeds; it returns the response, which holds
\* a list of n records or no 'list' key.  Its counters are gone with it.
RequestSucceeds(p) ==
    /\ pc[p] = "request"
    /\ attempts[p] < max_retries
    /\ attempts' = [attempts EXCEPT ![p] = 0]
    /\ sleeps' = [sleeps EXCEPT ![p] = 0]
    /\ \/ /\ pc' = [pc EXCEPT ![p] = "resp_nolist"]
          /\ UNCHANGED remaining
       \/ \E n \in 0..MaxBatchLen :
             /\ pc' = [pc EXCEPT ![p] = "resp_list"]
             /\ remaining' = [remaining EXCEPT ![p] = n]
    /\ UNCHANGED <<dumps, dict, stats, today, runs, seen_defids, load_warnings,
                   new_entries, batch_i, ret, dropped, unsaved,
                   save_warnings, seen_at_call, disk_at_call, persist>>

\* `return len(new_entries)`
\* Mutant of ReturnValue: fetch_and_store returns len(self.seen_defids).
MutReturnsSeenCount(p) == Cardinality(seen_defids[p])

ReturnValue(p) == Len(new_entries[p])

\* Mutant of AfterBatch: the persistence is inside the batch loop, entered as
\* soon as a batch leaves new_entries non-empty.
MutAfterBatchSavesAtOnce(p) ==
    IF new_entries[p] # <<>> THEN "save_dump"
    ELSE IF batch_i[p] + 1 < NumBatches THEN "request"
    ELSE "done"

\* Where fetch_and_store stands once batch i is over: the next request, the
\* persistence of new_entries, or its return when there is none.
AfterBatch(p) ==
    IF batch_i[p] + 1 < NumBatches THEN "request"
    ELSE IF new_entries[p] # <<>> THEN "save_dump"
    ELSE "done"

NextBatch(p) ==
    /\ batch_i' = [batch_i EXCEPT ![p] = @ + 1]
    /\ attempts' = [attempts EXCEPT ![p] = 0]
    /\ sleeps' = [sleeps EXCEPT ![p] = 0]
    /\ remaining' = [remaining EXCEPT ![p] = 0]
    /\ pc' = [pc EXCEPT ![p] = AfterBatch(p)]
    /\ ret' = [ret EXCEPT ![p] = IF AfterBatch(p) = "done" THEN ReturnValue(p) ELSE @]
    /\ dropped' = [dropped EXCEPT ![p] = 0]

\* `if not response_data or 'list' not in response_data: continue`
SkipBatch(p) ==
    /\ pc[p] \in {"resp_none", "resp_nolist"}
    /\ NextBatch(p)
    /\ UNCHANGED <<dumps, dict, stats, today, runs, seen_defids, load_warnings,
                   new_entries, unsaved,
                   save_warnings, seen_at_call, disk_at_call, persist>>

\* Mutant of Admit: the admitted defid is not added to seen_defids.
MutAdmitForgetsSeen(seen, entries, raw) ==
    LET entry_data == ExtractEntryData(raw)
    IN IF entry_data = <<>> THEN [seen |-> seen, entries |-> entries]
       ELSE IF entry_data[1].defid \in seen THEN [seen |-> seen, entries |-> entries]
       ELSE [seen |-> seen, entries |-> Append(entries, entry_data[1])]

\* The body of `for raw_entry in response_data['list']` on one record.
Admit(seen, entries, raw) ==
    LET entry_data == ExtractEntryData(raw)
    IN IF entry_data = <<>> THEN [seen |-> seen, entries |-> entries]
       ELSE IF entry_data[1].defid \in seen THEN [seen |-> seen, entries |-> entries]
       ELSE [seen |-> seen \cup {entry_data[1].defid},
             entries |-> Append(entries, entry_data[1])]

ProcessRecord(p, raw) ==
    /\ pc[p] = "resp_list"
    /\ remaining[p] > 0
    /\ remaining' = [remaining EXCEPT ![p] = @ - 1]
    /\ LET r == Admit(seen_defids[p], new_entries[p], raw)
       IN /\ seen_defids' = [seen_defids EXCEPT ![p] = r.seen]
          /\ new_entries' = [new_entries EXCEPT ![p] = r.entries]
    /\ dropped' = [dropped EXCEPT ![p] = IF ExtractEntryData(raw) = <<>> THEN @ + 1 ELSE @]
    /\ UNCHANGED <<dumps, dict, stats, today, runs, pc, load_warnings, batch_i,
                   attempts, sleeps, ret, unsaved,
                   save_warnings, seen_at_call, disk_at_call, persist>>

\* The list is exhausted: the inter-batch sleep, then the next batch.
EndBatch(p) ==
    /\ pc[p] = "resp_list"
    /\ remaining[p] = 0
    /\ NextBatch(p)
    /\ UNCHANGED <<dumps, dict, stats, today, runs, seen_defids, load_warnings,
                   new_entries, unsaved,
                   save_warnings, seen_at_call, disk_at_call, persist>>

\* What the persistence steps of one operation leave alone.
fetching == <<runs, seen_defids, load_warnings, new_entries, batch_i, attempts,
              sleeps, remaining, dropped, seen_at_call, disk_at_call>>

\* _save_to_daily_dump, lines 99-103: the clock is read and names the file.
DumpClock(p) ==
    /\ pc[p] = "save_dump"
    /\ dump_date' = [dump_date EXCEPT ![p] = today]
    /\ pc' = [pc EXCEPT ![p] = "dump_read"]
    /\ UNCHANGED <<dumps, dict, stats, today, ret, unsaved, save_warnings,
                   dump_buf, letter_todo, letter_buf, stats_buf, listing, fetching>>

\* lines 105-115: the file of that date is read as it is now, the new entries
\* are appended in memory and the result is validated.  A failed validation
\* ends the call without a write; a read that raises what line 110 does not
\* catch (or leaves no list to extend) leaves fetch_and_store by that
\* exception.
DumpRead(p) ==
    /\ pc[p] = "dump_read"
    /\ LET file == dumps[dump_date[p]]
           merged == MergeDump(file, new_entries[p])
       IN /\ IF ReadRaises(file)
             THEN /\ pc' = [pc EXCEPT ![p] = "crashed"]
                  /\ UNCHANGED <<dump_buf, unsaved>>
             ELSE IF ValidateJsonList(merged)
             THEN /\ dump_buf' = [dump_buf EXCEPT ![p] = merged]
                  /\ pc' = [pc EXCEPT ![p] = "dump_open"]
                  /\ UNCHANGED unsaved
             ELSE /\ pc' = [pc EXCEPT ![p] = "save_dict"]
                  /\ unsaved' = [unsaved EXCEPT ![p] =
                                    @ \cup {new_entries[p][i].defid :
                                               i \in 1..Len(new_entries[p])}]
                  /\ UNCHANGED dump_buf
          /\ save_warnings' = [save_warnings EXCEPT ![p] =
                                  @ + DumpMergeWarnings(file, new_entries[p])]
    /\ UNCHANGED <<dumps, dict, stats, today, ret, dump_date, letter_todo,
                   letter_buf, stats_buf, listing, fetching>>

\* line 116: open(filepath, 'w') empties the file.
DumpOpen(p) ==
    /\ pc[p] = "dump_open"
    /\ dumps' = [dumps EXCEPT ![dump_date[p]] = Truncated]
    /\ pc' = [pc EXCEPT ![p] = "dump_write"]
    /\ UNCHANGED <<dict, stats, today, ret, unsaved, save_warnings, persist, fetching>>

\* line 117: json.dump writes existing_data, from the start of the file and
\* over what another instance may have written there since the open; a
\* value the file cannot encode raises, and the exception leaves
\* fetch_and_store.
DumpWrite(p) ==
    /\ pc[p] = "dump_write"
    /\ dumps' = [dumps EXCEPT ![dump_date[p]] = DumpAfterWrite(@, dump_buf[p])]
    /\ pc' = [pc EXCEPT ![p] = IF EncodableList(dump_buf[p]) THEN "save_dict"
                                ELSE "crashed"]
    /\ dump_buf' = [dump_buf EXCEPT ![p] = <<>>]
    /\ UNCHANGED <<dict, stats, today, ret, unsaved, save_warnings, dump_date,
                   letter_todo, letter_buf, stats_buf, listing, fetching>>

\* Where _save_to_alphabetical_dict stands when the letters of todo are left.
NextLetter(todo) == IF todo = <<>> THEN "stats" ELSE "letter_read"

\* _save_to_alphabetical_dict, lines 123-130: the entries are grouped by letter.
DictBegin(p) ==
    /\ pc[p] = "save_dict"
    /\ LET lg == LetterGroups(new_entries[p], NoGroups)
       IN /\ letter_todo' = [letter_todo EXCEPT ![p] = lg.order]
          /\ pc' = [pc EXCEPT ![p] = NextLetter(lg.order)]
    /\ UNCHANGED <<dumps, dict, stats, today, ret, unsaved, save_warnings,
                   dump_date, dump_buf, letter_buf, stats_buf, listing, fetching>>

\* lines 133-156 for the next letter: its file is read, its entries are
\* appended under their words in memory and the result is validated.  A
\* failed validation goes on to the next letter without a write; a read
\* that raises what line 140 does not catch (or leaves no dict to add to)
\* leaves fetch_and_store by that exception.
LetterRead(p) ==
    /\ pc[p] = "letter_read"
    /\ LET letter == Head(letter_todo[p])
           letter_entries == LetterGroups(new_entries[p], NoGroups).groups[letter]
           merged == MergeLetter(ExistingDict(dict[letter]), letter_entries)
       IN /\ IF ReadRaises(dict[letter])
             THEN /\ pc' = [pc EXCEPT ![p] = "crashed"]
                  /\ UNCHANGED <<letter_todo, letter_buf>>
             ELSE IF ValidateJsonDict(merged)
             THEN /\ letter_buf' = [letter_buf EXCEPT ![p] = merged]
                  /\ pc' = [pc EXCEPT ![p] = "letter_open"]
                  /\ UNCHANGED letter_todo
             ELSE /\ letter_todo' = [letter_todo EXCEPT ![p] = Tail(@)]
                  /\ pc' = [pc EXCEPT ![p] = NextLetter(Tail(letter_todo[p]))]
                  /\ UNCHANGED letter_buf
          /\ save_warnings' = [save_warnings EXCEPT ![p] =
                                  @ + LetterMergeWarnings(dict, letter_entries)]
    /\ UNCHANGED <<dumps, dict, stats, today, ret, unsaved, dump_date, dump_buf,
                   stats_buf, listing, fetching>>

\* line 157: open(filepath, 'w') empties the letter's file.
LetterOpen(p) ==
    /\ pc[p] = "letter_open"
    /\ dict' = [dict EXCEPT ![Head(letter_todo[p])] = Truncated]
    /\ pc' = [pc EXCEPT ![p] = "letter_write"]
    /\ UNCHANGED <<dumps, stats, today, ret, unsaved, save_warnings, persist, fetching>>

\* line 158: json.dump writes existing_dict, from the start of the file and
\* over what another instance may have written there since the open; a
\* value the file cannot encode raises, which ends the loop over the letters
\* and leaves fetch_and_store.
LetterWrite(p) ==
    /\ pc[p] = "letter_write"
    /\ dict' = [dict EXCEPT ![Head(letter_todo[p])] = DictAfterWrite(@, letter_buf[p])]
    /\ IF EncodableDict(letter_buf[p])
       THEN /\ letter_todo' = [letter_todo EXCEPT ![p] = Tail(@)]
            /\ pc' = [pc EXCEPT ![p] = NextLetter(Tail(letter_todo[p]))]
       ELSE /\ pc' = [pc EXCEPT ![p] = "crashed"]
            /\ UNCHANGED letter_todo
    /\ letter_buf' = [letter_buf EXCEPT ![p] = <<>>]
    /\ UNCHANGED <<dumps, stats, today, ret, unsaved, save_warnings, dump_date,
                   dump_buf, stats_buf, listing, fetching>>

\* _update_stats_file, lines 192-202: the stats dict is built with the time
\* of the clock and the size of seen_defids, and data_dir is listed.
StatsBegin(p) ==
    /\ pc[p] = "stats"
    /\ \E iso \in IsoLens :
          stats_buf' = [stats_buf EXCEPT ![p] = StatsInit(seen_defids[p], iso)]
    /\ listing' = [listing EXCEPT ![p] = ListDir(dumps)]
    /\ pc' = [pc EXCEPT ![p] = IF ListDir(dumps) = {} THEN "stats_dict"
                                ELSE "stats_data"]
    /\ UNCHANGED <<dumps, dict, stats, today, ret, unsaved, save_warnings,
                   dump_date, dump_buf, letter_todo, letter_buf, fetching>>

\* lines 203-212 for the next dump file of the listing, read as it is now.
\* A read that raises what line 211 does not catch is caught by line 236:
\* _update_stats_file returns without a write, then `return len(new_entries)`.
StatsReadDump(p) ==
    /\ pc[p] = "stats_data"
    /\ \E d \in listing[p] :
          IF ReadRaises(dumps[d])
          THEN /\ stats_buf' = [stats_buf EXCEPT ![p] = <<>>]
               /\ listing' = [listing EXCEPT ![p] = {}]
               /\ pc' = [pc EXCEPT ![p] = "done"]
               /\ ret' = [ret EXCEPT ![p] = ReturnValue(p)]
          ELSE /\ stats_buf' = [stats_buf EXCEPT ![p] = CountDump(@, d, dumps[d])]
               /\ listing' = [listing EXCEPT ![p] = @ \ {d}]
               /\ pc' = [pc EXCEPT ![p] = IF listing[p] = {d} THEN "stats_dict" ELSE @]
               /\ UNCHANGED ret
    /\ UNCHANGED <<dumps, dict, stats, today, unsaved, save_warnings,
                   dump_date, dump_buf, letter_todo, letter_buf, fetching>>

\* lines 214-215: dict_dir is listed.
StatsListDict(p) ==
    /\ pc[p] = "stats_dict"
    /\ listing' = [listing EXCEPT ![p] = ListDir(dict)]
    /\ pc' = [pc EXCEPT ![p] = IF ListDir(dict) = {} THEN "stats_open"
                                ELSE "stats_letter"]
    /\ UNCHANGED <<dumps, dict, stats, today, ret, unsaved, save_warnings,
                   dump_date, dump_buf, letter_todo, letter_buf, stats_buf,
                   fetching>>

\* lines 216-230 for the next letter file of the listing, read as it is now.
\* A read that raises what line 229 does not catch is caught by line 236.
StatsReadLetter(p) ==
    /\ pc[p] = "stats_letter"
    /\ \E l \in listing[p] :
          IF ReadRaises(dict[l])
          THEN /\ stats_buf' = [stats_buf EXCEPT ![p] = <<>>]
               /\ listing' = [listing EXCEPT ![p] = {}]
               /\ pc' = [pc EXCEPT ![p] = "done"]
               /\ ret' = [ret EXCEPT ![p] = ReturnValue(p)]
          ELSE /\ stats_buf' = [stats_buf EXCEPT ![p] = CountLetter(@, l, dict[l])]
               /\ listing' = [listing EXCEPT ![p] = @ \ {l}]
               /\ pc' = [pc EXCEPT ![p] = IF listing[p] = {l} THEN "stats_open" ELSE @]
               /\ UNCHANGED ret
    /\ UNCHANGED <<dumps, dict, stats, today, unsaved, save_warnings,
                   dump_date, dump_buf, letter_todo, letter_buf, fetching>>

\* line 233: open('stats.json', 'w') empties the file.
StatsOpen(p) ==
    /\ pc[p] = "stats_open"
    /\ stats' = PartialStats
    /\ pc' = [pc EXCEPT ![p] = "stats_write"]
    /\ UNCHANGED <<dumps, dict, today, ret, unsaved, save_warnings, persist, fetching>>

\* line 234: json.dump writes the stats, from the start of the file and over
\* what another instance may have written there since the open; then
\* `return len(new_entries)`.
StatsWrite(p) ==
    /\ pc[p] = "stats_write"
    /\ stats' = StatsAfterWrite(stats, stats_buf[p])
    /\ pc' = [pc EXCEPT ![p] = "done"]
    /\ ret' = [ret EXCEPT ![p] = ReturnValue(p)]
    /\ stats_buf' = [stats_buf EXCEPT ![p] = <<>>]
    /\ UNCHANGED <<dumps, dict, today, unsaved, save_warnings, dump_date,
                   dump_buf, letter_todo, letter_buf, listing, fetching>>

\* Where an instance stands inside each persistence operation.
DumpPcs == {"save_dump", "dump_read", "dump_open", "dump_write"}
DictPcs == {"save_dict", "letter_read", "letter_open", "letter_write"}
StatsPcs == {"stats", "stats_data", "stats_dict", "stats_letter", "stats_open",
             "stats_write"}

\* Mutant of StatsFails: the exception is not swallowed and leaves
\* fetch_and_store.
MutStatsFailurePropagates(p) ==
    /\ pc[p] \in StatsPcs
    /\ pc' = [pc EXCEPT ![p] = "crashed"]
    /\ stats_buf' = [stats_buf EXCEPT ![p] = <<>>]
    /\ listing' = [listing EXCEPT ![p] = {}]
    /\ UNCHANGED <<dumps, dict, stats, today, ret, unsaved, save_warnings,
                   dump_date, dump_buf, letter_todo, letter_buf, fetching>>

\* lines 236-237: an exception anywhere in _update_stats_file is swallowed;
\* the stats file stays as it is at that point (untouched, or emptied by the
\* open), then `return len(new_entries)`.
StatsFails(p) ==
    /\ pc[p] \in StatsPcs
    /\ pc' = [pc EXCEPT ![p] = "done"]
    /\ ret' = [ret EXCEPT ![p] = ReturnValue(p)]
    /\ stats_buf' = [stats_buf EXCEPT ![p] = <<>>]
    /\ listing' = [listing EXCEPT ![p] = {}]
    /\ UNCHANGED <<dumps, dict, stats, today, unsaved, save_warnings,
                   dump_date, dump_buf, letter_todo, letter_buf, fetching>>

\* The process ends: after main() returns, or by an exception that nothing
\* catches.
Exit(p) ==
    /\ pc[p] \in {"ready", "done", "crashed"}
    /\ pc' = [pc EXCEPT ![p] = "idle"]
    /\ seen_defids' = [seen_defids EXCEPT ![p] = {}]
    /\ load_warnings' = [load_warnings EXCEPT ![p] = 0]
    /\ new_entries' = [new_entries EXCEPT ![p] = <<>>]
    /\ batch_i' = [batch_i EXCEPT ![p] = 0]
    /\ attempts' = [attempts EXCEPT ![p] = 0]
    /\ sleeps' = [sleeps EXCEPT ![p] = 0]
    /\ remaining' = [remaining EXCEPT ![p] = 0]
    /\ ret' = [ret EXCEPT ![p] = 0]
    /\ dropped' = [dropped EXCEPT ![p] = 0]
    /\ unsaved' = [unsaved EXCEPT ![p] = {}]
    /\ save_warnings' = [save_warnings EXCEPT ![p] = 0]
    /\ seen_at_call' = [seen_at_call EXCEPT ![p] = {}]
    /\ disk_at_call' = [disk_at_call EXCEPT ![p] = NoSnapshot]
    /\ dump_date' = [dump_date EXCEPT ![p] = 0]
    /\ dump_buf' = [dump_buf EXCEPT ![p] = <<>>]
    /\ letter_todo' = [letter_todo EXCEPT ![p] = <<>>]
    /\ letter_buf' = [letter_buf EXCEPT ![p] = <<>>]
    /\ stats_buf' = [stats_buf EXCEPT ![p] = <<>>]
    /\ listing' = [listing EXCEPT ![p] = {}]
    /\ UNCHANGED <<dumps, dict, stats, today, runs>>

\* Midnight passes: datetime.now() shows the next date from now on, wherever
\* the instances are.
NextDay ==
    /\ today < MaxDate
    /\ today' = today + 1
    /\ UNCHANGED <<dumps, dict, stats, runs, pc, seen_defids, load_warnings,
                   new_entries, batch_i, attempts, sleeps, remaining, ret, dropped, unsaved,
                   save_warnings, seen_at_call, disk_at_call, persist>>

Step(p) ==
    \/ Start(p)
    \/ Reload(p)
    \/ LoadRead(p)
    \/ CallFetchAndStore(p)
    \/ RequestFails(p)
    \/ RequestGivesUp(p)
    \/ RequestSucceeds(p)
    \/ SkipBatch(p)
    \/ \E raw \in RawRecords : ProcessRecord(p, raw)
    \/ EndBatch(p)
    \/ DumpClock(p)
    \/ DumpRead(p)
    \/ DumpOpen(p)
    \/ DumpWrite(p)
    \/ DictBegin(p)
    \/ LetterRead(p)
    \/ LetterOpen(p)
    \/ LetterWrite(p)
    \/ StatsBegin(p)
    \/ StatsReadDump(p)
    \/ StatsListDict(p)
    \/ StatsReadLetter(p)
    \/ StatsOpen(p)
    \/ StatsWrite(p)
    \/ StatsFails(p)
    \/ Exit(p)

\* One instance at a time.
Next == Step(1) \/ NextDay

Spec == Init /\ [][Next]_vars

\* The same program on a storage directory as an instance may find it, with
\* files it has not written itself: every dump file is absent, broken off,
\* not UTF-8, the text null, or holds one entry; the file of letter A is
\* absent, not UTF-8 or the text null.
FoundList == ExtractEntryData(FullRecord(1, WordA, TimeStamp))
FoundDumps == {Absent, Unparseable(2), NotUtf8, JsonNull, DumpFile(FoundList)}
FoundLetters == {Absent, NotUtf8, JsonNull}

InitStorage ==
    /\ dumps \in [Dates -> FoundDumps]
    /\ \E f \in FoundLetters :
          dict = [l \in Letters |-> IF l = "A" THEN f ELSE Absent]
    /\ stats = NoStats
    /\ today = 1
    /\ runs = 0
    /\ pc = [p \in Procs |-> "idle"]
    /\ seen_defids = [p \in Procs |-> {}]
    /\ load_warnings = [p \in Procs |-> 0]
    /\ new_entries = [p \in Procs |-> <<>>]
    /\ batch_i = [p \in Procs |-> 0]
    /\ attempts = [p \in Procs |-> 0]
    /\ sleeps = [p \in Procs |-> 0]
    /\ remaining = [p \in Procs |-> 0]
    /\ ret = [p \in Procs |-> 0]
    /\ dropped = [p \in Procs |-> 0]
    /\ unsaved = [p \in Procs |-> {}]
    /\ save_warnings = [p \in Procs |-> 0]
    /\ seen_at_call = [p \in Procs |-> {}]
    /\ disk_at_call = [p \in Procs |-> NoSnapshot]
    /\ dump_date = [p \in Procs |-> 0]
    /\ dump_buf = [p \in Procs |-> <<>>]
    /\ letter_todo = [p \in Procs |-> <<>>]
    /\ letter_buf = [p \in Procs |-> <<>>]
    /\ stats_buf = [p \in Procs |-> <<>>]
    /\ listing = [p \in Procs |-> {}]

SpecStorage == InitStorage /\ [][Next]_vars

\* With one instance at a time, the steps of each operation on the files
\* amount to the operation taken as a whole on the files the call found.
StepsAmountToCalls ==
    [][ \A p \in Procs :
          /\ (pc[p] \in {"idle", "init_load"} /\ pc'[p] \in {"ready", "crashed"})
                => \E o \in ListOrders(dumps) :
                      LET r == LoadExistingDefids({}, dumps, o)
                      IN /\ r.raised = (pc'[p] = "crashed")
                         /\ seen_defids'[p] = r.seen
                         /\ load_warnings'[p] = r.warnings
          /\ (pc[p] \in DumpPcs /\ pc'[p] \notin DumpPcs)
                => LET r == SaveToDailyDump(disk_at_call[p].dumps[dump_date'[p]],
                                            new_entries[p])
                   IN /\ dumps' = [disk_at_call[p].dumps EXCEPT ![dump_date'[p]] = r.file]
                      /\ r.raised = (pc'[p] = "crashed")
          /\ (pc[p] \in DictPcs /\ pc'[p] \notin DictPcs)
                => LET r == SaveToAlphabeticalDict(disk_at_call[p].dict, new_entries[p])
                   IN /\ dict' = r.files
                      /\ r.raised = (pc'[p] = "crashed")
          /\ (pc[p] = "stats_write" /\ pc'[p] = "done" /\ stats' # stats)
                => /\ ~StatsRaises(dumps, dict)
                   /\ stats' = StatsOf(seen_defids[p], dumps, dict,
                                       stats_buf[p].last_updated)
      ]_vars

\* ============================================================ properties
\* What the stored files hold, stated without the program's own operators.

\* the positions of dump file d that hold defid id
DumpPositions(d, id) ==
    IF dumps[d].st = "ok"
    THEN {i \in 1..Len(dumps[d].data) : dumps[d].data[i].defid = id}
    ELSE {}

\* the dump files that hold defid id
DumpFilesWith(id) == {d \in Dates : DumpPositions(d, id) # {}}

\* the defids of all parseable dump files
StoredIds == {id \in DefIds : DumpFilesWith(id) # {}}

\* the words of letter file l
IndexWords(l) == IF dict[l].st = "ok" THEN DOMAIN dict[l].data ELSE {}

\* the positions of the definition list of word w in letter file l that
\* hold defid id
IndexPositions(l, w, id) ==
    IF w \in IndexWords(l)
    THEN {i \in 1..Len(dict[l].data[w]) : dict[l].data[w][i].defid = id}
    ELSE {}

AllIndexWords == UNION {IndexWords(l) : l \in Letters}

\* ------------------------------------------------------------------- C1
\* C1: no defid occurs more than once across the contents of all daily dump
\* files, whatever the runs did (repeated ids within a run or across runs).
C1_DedupInvariant ==
    \A id \in DefIds :
        /\ Cardinality(DumpFilesWith(id)) <= 1
        /\ \A d \in Dates : Cardinality(DumpPositions(d, id)) <= 1

\* Two runs have stored entries, in the files of two dates, and the second
\* run has returned.
C1_Witness ==
    /\ runs >= 2
    /\ pc[1] = "done"
    /\ \A d \in {1, 2} : dumps[d].st = "ok" /\ Len(dumps[d].data) > 0

\* ------------------------------------------------------------------- C2
\* A run of fetch_and_store of instance p is over: it has returned, or an
\* exception has left it (no exception leaves it before the batch loop has
\* ended).
RunOver(p) == pc[p] = "done" \/ (pc[p] = "crashed" /\ batch_i[p] = NumBatches)

\* C2: at the end of every run of fetch_and_store, every id of seen_defids
\* is in exactly one daily dump file.
C2_SeenIdsStoredOnce ==
    \A p \in Procs :
        RunOver(p) =>
            \A id \in seen_defids[p] : Cardinality(DumpFilesWith(id)) = 1

\* ------------------------------------------------------------------- C3
\* C3: a (word, id) pair occurs at most once in the whole letter index: in
\* at most one letter file and at most once in the word's definition list.
C3_IndexPairOnce ==
    \A w \in AllIndexWords : \A id \in DefIds :
        /\ Cardinality({l \in Letters : IndexPositions(l, w, id) # {}}) <= 1
        /\ \A l \in Letters : Cardinality(IndexPositions(l, w, id)) <= 1

\* ------------------------------------------------------------------- C4
\* The bucket the claim names for a word.
AsciiUpperLetters == {"A"}
ClaimedBucket(word) ==
    IF word = <<>> THEN CatchAll
    ELSE IF UpperChar(word[1]) \in AsciiUpperLetters THEN UpperChar(word[1])
    ELSE CatchAll

\* the letters whose group holds entry e, with its word as it was given
GroupsHolding(lg, e) ==
    {l \in DOMAIN lg.groups : \E i \in 1..Len(lg.groups[l]) : lg.groups[l][i] = e}

\* C4: the letter index merge places every entry it is given in exactly one
\* bucket, the one of the uppercase first character of its word, or the
\* catch-all bucket when that is no letter or the word is empty; the word
\* keeps its case.
C4_EveryEntryInItsBucket ==
    \A p \in Procs :
        pc[p] = "save_dict" =>
            LET lg == LetterGroups(new_entries[p], NoGroups)
            IN \A i \in 1..Len(new_entries[p]) :
                  GroupsHolding(lg, new_entries[p][i])
                      = {ClaimedBucket(new_entries[p][i].word)}

\* ------------------------------------------------------------------- C5
\* C5: the daily dump merge is append-only: when the file of the date it
\* reads parsed to E when the call began, and E followed by the new entries
\* passes the validation, the file holds E followed by the new entries once
\* the merge is over; a merge of no entries leaves every file as it is.
C5_AppendOnly ==
    [][ \A p \in Procs :
          /\ (pc[p] \in DumpPcs /\ pc'[p] \notin DumpPcs)
                => LET d == dump_date'[p]
                       before == disk_at_call[p].dumps[d]
                   IN (before.st = "ok"
                         /\ ValidateJsonList(before.data \o new_entries[p]))
                         => dumps'[d] = DumpFile(before.data \o new_entries[p])
          /\ \A d \in Dates : SaveToDailyDump(dumps[d], <<>>).file = dumps[d]
      ]_vars

\* ------------------------------------------------------------------- C6
\* C6: _make_request makes at most max_retries attempts; while it retries
\* it has slept once after every failed attempt; it returns None only when
\* max_retries attempts have failed, with no sleep after the last one; it
\* returns a response on an attempt that is within max_retries; and no step
\* of it changes seen_defids, new_entries or any file.
C6_BoundedRetriesNoSideEffect ==
    [][ \A p \in Procs :
          /\ attempts'[p] <= max_retries
          /\ pc'[p] = "request" => sleeps'[p] = attempts'[p]
          /\ pc'[p] = "resp_none"
                => /\ attempts'[p] = max_retries
                   /\ sleeps'[p] = max_retries - 1
          /\ (pc[p] = "request" /\ pc'[p] \in {"resp_nolist", "resp_list"})
                => /\ attempts[p] < max_retries
                   /\ sleeps[p] = attempts[p]
          /\ (pc[p] = "request" /\ (attempts'[p] # attempts[p] \/ pc'[p] # pc[p]))
                => /\ seen_defids' = seen_defids
                   /\ new_entries' = new_entries
                   /\ disk' = disk
      ]_vars

\* Every attempt of a request has failed, in an instance that has ids to lose.
C6_Witness ==
    /\ pc[1] = "resp_none"
    /\ attempts[1] = max_retries
    /\ sleeps[1] = max_retries - 1
    /\ seen_defids[1] # {}
    /\ StoredIds # {}

\* ------------------------------------------------------------------- C7
WellFormed(raw) == Fields \subseteq DOMAIN raw
WellFormedRecords == {r \in RawRecords : WellFormed(r)}
MalformedRecords == RawRecords \ WellFormedRecords

\* C7: reading a record that lacks a required field changes neither
\* seen_defids nor new_entries nor any file (it is only counted as dropped),
\* so the records after it are processed from the state they would have met
\* without it.
C7_MalformedDropped ==
    [][ \A p \in Procs :
          (pc[p] = "resp_list" /\ remaining[p] > 0)
              => \/ /\ seen_defids' = seen_defids
                    /\ new_entries' = new_entries
                    /\ disk' = disk
                    /\ dropped'[p] = dropped[p] + 1
                 \/ \A raw \in MalformedRecords : ~ProcessRecord(p, raw)
      ]_vars

\* In the first batch a record was dropped and a sibling was admitted.
C7_Witness ==
    /\ pc[1] = "resp_list"
    /\ batch_i[1] = 0
    /\ remaining[1] = 0
    /\ dropped[1] = 1
    /\ Len(new_entries[1]) = 1

\* ------------------------------------------------------------------- C8
\* the dump files a reader cannot parse
MalformedDumps == {d \in Dates : dumps[d].st \notin {"absent", "ok"}}

\* C8: whatever the dump files hold, the bootstrap of a fresh instance does
\* not raise; when it returns, after the last file of its listing or with no
\* file to read, seen_defids equals the ids of the parseable dump files and
\* one warning was logged per file that does not parse.
C8_BootstrapTolerant ==
    [][ \A p \in Procs :
          /\ pc[p] \in {"idle", "init_load"} => pc'[p] # "crashed"
          /\ (pc[p] \in {"idle", "init_load"} /\ pc'[p] = "ready")
                => /\ seen_defids'[p] = StoredIds
                   /\ load_warnings'[p] = Cardinality(MalformedDumps)
      ]_vars

\* ------------------------------------------------------------------- C9
\* A load of the files, started from what a load of them gives, gives the
\* same set, in whatever orders the two loads read the files.
LoadTwiceSame(files) ==
    \A o1 \in ListOrders(files) :
        LET loaded == LoadExistingDefids({}, files, o1).seen
        IN \A o2 \in ListOrders(files) :
              LoadExistingDefids(loaded, files, o2).seen = loaded

\* C9: loading the dump files once more, on an instance that has loaded
\* them (freshly constructed, or back from fetch_and_store), leaves its
\* seen_defids as it is at every step of the load; and a load of the files
\* as they are, started from what a load of them gives, gives the same set
\* (stated of the dump files before and after every step that changes them,
\* which are all the contents they ever have).
C9_BootstrapIdempotent ==
    [][ /\ \A p \in Procs :
              (pc[p] \in {"ready", "done", "load"} /\ pc'[p] \in {"load", "ready"})
                  => seen_defids'[p] = seen_defids[p]
        /\ dumps' # dumps => LoadTwiceSame(dumps) /\ LoadTwiceSame(dumps')
      ]_vars

\* An instance that has admitted an id has loaded the dump files again.
C9_Witness ==
    /\ pc[1] = "ready"
    /\ ret[1] >= 1
    /\ StoredIds # {}

\* ------------------------------------------------------------------ C10
\* C10: seen_defids never loses an id while the instance lives; reading a
\* record appends at most one entry to new_entries, whose id was not in
\* seen_defids and is in it afterwards, and adds nothing else to
\* seen_defids; a well-formed record is admitted exactly when its id was
\* not in seen_defids; no two entries of new_entries share an id.
C10_AdmitOncePerId ==
    [][ \A p \in Procs :
          /\ (pc[p] # "idle" /\ pc'[p] # "idle") => seen_defids[p] \subseteq seen_defids'[p]
          /\ (pc[p] = "resp_list" /\ pc'[p] = "resp_list")
                => LET old == new_entries[p]
                       new == new_entries'[p]
                       added == {new[i].defid : i \in (Len(old) + 1)..Len(new)}
                   IN /\ Len(old) <= Len(new) /\ Len(new) <= Len(old) + 1
                      /\ SubSeq(new, 1, Len(old)) = old
                      /\ added \cap seen_defids[p] = {}
                      /\ seen_defids'[p] = seen_defids[p] \cup added
          /\ (pc[p] = "resp_list" /\ remaining[p] > 0)
                => \A raw \in WellFormedRecords :
                      \/ IF raw.defid \in seen_defids[p]
                         THEN new_entries'[p] = new_entries[p]
                         ELSE /\ Len(new_entries'[p]) = Len(new_entries[p]) + 1
                              /\ new_entries'[p][Len(new_entries'[p])].defid
                                    = raw.defid
                      \/ ~ProcessRecord(p, raw)
          /\ \A i, j \in 1..Len(new_entries'[p]) :
                i # j => new_entries'[p][i].defid # new_entries'[p][j].defid
      ]_vars

\* A second call reads a batch: one id is known from before, one was
\* admitted in this call.
C10_Witness ==
    /\ pc[1] = "resp_list"
    /\ runs = 2
    /\ Len(new_entries[1]) = 1
    /\ Cardinality(seen_defids[1]) = 2

\* ------------------------------------------------------------------ C11
\* The list _save_to_daily_dump validates for instance p: the parsed content
\* of the file of the date it read, followed by the new entries.
MergedDump(p) == MergeDump(dumps[dump_date[p]], new_entries[p])

\* C11: when the validation of the merged daily dump fails, the dump files
\* stay as they were, a warning is logged, seen_defids keeps the ids of this
\* call, and the call goes on to the letter index merge and from there to
\* the stats update and its return.
C11_ValidationAbortsOnlyDump ==
    [][ \A p \in Procs :
          /\ (pc[p] = "dump_read" /\ pc'[p] # "dump_read"
                /\ ~ValidateJsonList(MergedDump(p)))
                => /\ dumps' = dumps
                   /\ save_warnings'[p] > save_warnings[p]
                   /\ seen_defids'[p] = seen_defids[p]
                   /\ pc'[p] = "save_dict"
          /\ (pc[p] \in DictPcs /\ unsaved[p] # {}) => pc'[p] \in DictPcs \cup {"stats"}
          /\ (pc[p] \in StatsPcs /\ unsaved[p] # {}) => pc'[p] \in StatsPcs \cup {"done"}
      ]_vars

\* ------------------------------------------------------------------ C12
\* The persistence of one call, taken on its own: an instance on empty
\* storage that has fetched all its batches and holds in new_entries any
\* list of entries with distinct defids, drawn from the well-formed records
\* and from a record of a third defid whose word is blank and whose
\* written_on json.dumps rejects.
PersistRecords == WellFormedRecords \cup {FullRecord(3, WordBlank, Unserializable)}
PersistEntries == {ExtractEntryData(r)[1] : r \in PersistRecords}
PersistIds == {e.defid : e \in PersistEntries}

FetchedLists ==
    {s \in UNION {[1..n -> PersistEntries] : n \in 1..Cardinality(PersistIds)} :
        \A i, j \in 1..Len(s) : i # j => s[i].defid # s[j].defid}

InitPersist ==
    /\ dumps = [d \in Dates |-> Absent]
    /\ dict = [l \in Letters |-> Absent]
    /\ stats = NoStats
    /\ today = 1
    /\ runs = 1
    /\ pc = [p \in Procs |-> IF p = 1 THEN "save_dump" ELSE "idle"]
    /\ \E s \in FetchedLists :
          /\ new_entries = [p \in Procs |-> IF p = 1 THEN s ELSE <<>>]
          /\ seen_defids = [p \in Procs |->
                               IF p = 1 THEN {s[i].defid : i \in 1..Len(s)} ELSE {}]
    /\ load_warnings = [p \in Procs |-> 0]
    /\ batch_i = [p \in Procs |-> IF p = 1 THEN NumBatches ELSE 0]
    /\ attempts = [p \in Procs |-> 0]
    /\ sleeps = [p \in Procs |-> 0]
    /\ remaining = [p \in Procs |-> 0]
    /\ ret = [p \in Procs |-> 0]
    /\ dropped = [p \in Procs |-> 0]
    /\ unsaved = [p \in Procs |-> {}]
    /\ save_warnings = [p \in Procs |-> 0]
    /\ seen_at_call = [p \in Procs |-> {}]
    /\ disk_at_call = [p \in Procs |-> NoSnapshot]
    /\ dump_date = [p \in Procs |-> 0]
    /\ dump_buf = [p \in Procs |-> <<>>]
    /\ letter_todo = [p \in Procs |-> <<>>]
    /\ letter_buf = [p \in Procs |-> <<>>]
    /\ stats_buf = [p \in Procs |-> <<>>]
    /\ listing = [p \in Procs |-> {}]

NextPersist ==
    \/ DumpClock(1)
    \/ DumpRead(1)
    \/ DumpOpen(1)
    \/ DumpWrite(1)
    \/ DictBegin(1)
    \/ LetterRead(1)
    \/ LetterOpen(1)
    \/ LetterWrite(1)
    \/ StatsBegin(1)
    \/ StatsReadDump(1)
    \/ StatsListDict(1)
    \/ StatsReadLetter(1)
    \/ StatsOpen(1)
    \/ StatsWrite(1)
    \/ StatsFails(1)
    \/ Exit(1)
    \/ NextDay

SpecPersist == InitPersist /\ [][NextPersist]_vars

\* the letters whose files _save_to_alphabetical_dict merges for instance p
AffectedLetters(p) == DOMAIN LetterGroups(new_entries[p], NoGroups).groups

\* C12: when the letter index merge is over, every affected letter's file is
\* what the merge of that letter's entries alone makes of the file the call
\* found, whatever happened to the files of the other letters, before or
\* after it.
C12_LettersIndependent ==
    [][ \A p \in Procs :
          (pc[p] \in DictPcs /\ pc'[p] \notin DictPcs)
              => LET lg == LetterGroups(new_entries[p], NoGroups)
                 IN \A l \in DOMAIN lg.groups :
                       dict'[l] = SaveLetter(disk_at_call[p].dict[l], lg.groups[l]).file
      ]_vars

\* ------------------------------------------------------------------ C13
\* C13: whatever becomes of the stats computation, at any of its steps,
\* _update_stats_file returns and fetch_and_store returns len(new_entries);
\* the daily dump files and the letter index files stay as the call wrote
\* them.
C13_StatsFailureSwallowed ==
    [][ \A p \in Procs :
          (pc[p] \in StatsPcs /\ (pc'[p] # pc[p] \/ listing'[p] # listing[p]))
              => /\ pc'[p] \in StatsPcs \cup {"done"}
                 /\ pc'[p] = "done" => ret'[p] = Len(new_entries[p])
                 /\ dumps' = dumps
                 /\ dict' = dict
      ]_vars

\* fetch_and_store has returned 1 after a call that wrote a dump file and a
\* letter file and whose stats computation failed, before the summary file
\* was opened or while it was written.
C13_Witness ==
    /\ pc[1] = "done"
    /\ ret[1] = 1
    /\ stats \in {NoStats, PartialStats}
    /\ dumps[today].st = "ok"
    /\ \E l \in Letters : dict[l].st = "ok"

\* ------------------------------------------------------------------ C14
\* the sum of the values of a function with a finite domain
RECURSIVE SumValues(_, _)
SumValues(f, keys) ==
    IF keys = {} THEN 0
    ELSE LET k == CHOOSE x \in keys : TRUE
         IN f[k] + SumValues(f, keys \ {k})

\* C14: whenever the stats file is written, its total_unique_entries is the
\* number of distinct defids the daily dump files hold at that moment, and,
\* the dump files holding no defid twice, the sum of its daily_breakdown.
C14_StatsFromDisk ==
    [][ \A p \in Procs :
          (pc[p] = "stats_write" /\ stats' # stats /\ stats'.st = "ok")
              => /\ stats'.total_unique_entries = Cardinality(StoredIds)
                 /\ C1_DedupInvariant
                       => stats'.total_unique_entries
                             = SumValues(stats'.daily_breakdown,
                                         DOMAIN stats'.daily_breakdown)
      ]_vars

\* ------------------------------------------------------------------ C15
\* the defids the letter index files hold
IndexIds ==
    {id \in DefIds : \E l \in Letters : \E w \in IndexWords(l) :
                        IndexPositions(l, w, id) # {}}

\* the defids the dump files held when instance p entered fetch_and_store
StoredAtCall(p) ==
    UNION {FileDefids(ExistingData(disk_at_call[p].dumps[d])) : d \in Dates}

\* the defids the letter index files held when instance p entered
\* fetch_and_store
IndexedAtCall(p) ==
    LET files == disk_at_call[p].dict
    IN UNION { UNION {FileDefids(files[l].data[w]) : w \in DOMAIN ExistingDict(files[l])} :
                  l \in Letters }

\* C15: a call of fetch_and_store issues at most num_batches * max_retries
\* requests, no exception leaves it, and when it is over every defid the
\* dump files or the letter index held when it began is still held.
C15_NoFatalErrorNoLoss ==
    [][ \A p \in Procs :
          /\ batch_i'[p] * max_retries + attempts'[p] <= NumBatches * max_retries
          /\ batch_i'[p] <= NumBatches
          /\ pc'[p] # "crashed"
          /\ (pc'[p] \in {"done", "crashed"} /\ pc[p] \notin {"done", "crashed"})
                => /\ StoredAtCall(p) \subseteq StoredIds'
                   /\ IndexedAtCall(p) \subseteq IndexIds'
      ]_vars

\* ------------------------------------------------------------------ C16
\* C16: a load that meets an unparseable file goes on as if the file were
\* empty and logs a warning, at the bootstrap, in the daily dump merge and
\* in the letter index merge; a write skipped by a failed validation logs a
\* warning.
C16_WarningsEmitted ==
    [][ \A p \in Procs :
          /\ (pc[p] \in LoadPcs /\ listing'[p] # listing[p])
                => \A d \in listing[p] \ listing'[p] :
                      dumps[d].st = "corrupt"
                          => /\ load_warnings'[p] = load_warnings[p] + 1
                             /\ seen_defids'[p] = seen_defids[p]
          /\ (pc[p] = "dump_read" /\ pc'[p] # "dump_read"
                /\ dumps[dump_date[p]].st = "corrupt")
                => /\ save_warnings'[p] > save_warnings[p]
                   /\ pc'[p] = "dump_open"
                         => dump_buf'[p] = MergeDump(Absent, new_entries[p])
          /\ (pc[p] = "dump_read" /\ pc'[p] = "save_dict")
                => save_warnings'[p] > save_warnings[p]
          /\ (pc[p] = "letter_read"
                /\ (pc'[p] # "letter_read" \/ letter_todo'[p] # letter_todo[p])
                /\ dict[Head(letter_todo[p])].st = "corrupt")
                => save_warnings'[p] > save_warnings[p]
          /\ (pc[p] = "letter_read" /\ pc'[p] \in {"letter_read", "stats"}
                /\ letter_todo'[p] # letter_todo[p])
                => save_warnings'[p] > save_warnings[p]
      ]_vars

\* ------------------------------------------------------------------ C17
\* the defids of a list of entries
EntryIds(entries) == {entries[i].defid : i \in 1..Len(entries)}

PersistPcs == DumpPcs \cup DictPcs \cup StatsPcs

\* How far instance p is in the persistence of its call: every position of
\* the three operations in program order, the positions of the letter loop
\* counted once per letter handled and those of the two loops of the stats
\* update once per file read.
PersistProgress(p) ==
    LET n == Cardinality(Letters)
        m == Cardinality(Dates)
        handled == n - Len(letter_todo[p])
        read == Cardinality(listing[p])
    IN CASE pc[p] = "save_dump" -> 0
         [] pc[p] = "dump_read" -> 1
         [] pc[p] = "dump_open" -> 2
         [] pc[p] = "dump_write" -> 3
         [] pc[p] = "save_dict" -> 4
         [] pc[p] = "letter_read" -> 5 + 3 * handled
         [] pc[p] = "letter_open" -> 6 + 3 * handled
         [] pc[p] = "letter_write" -> 7 + 3 * handled
         [] pc[p] = "stats" -> 5 + 3 * n
         [] pc[p] = "stats_data" -> 6 + 3 * n + (m - read)
         [] pc[p] = "stats_dict" -> 6 + 3 * n + m
         [] pc[p] = "stats_letter" -> 7 + 3 * n + m + (n - read)
         [] pc[p] = "stats_open" -> 7 + 4 * n + m
         [] pc[p] = "stats_write" -> 8 + 4 * n + m
         [] OTHER -> 9 + 4 * n + m

\* C17: the dump files, the letter files and the stats file change only in
\* the writing steps of their own operation; an instance is in these
\* operations only with all its batches fetched and new_entries non-empty;
\* the operations are entered from the batch loop, and every step of them
\* is further in program order than the one before, so that each operation
\* runs once and each letter is handled once; new_entries then holds exactly
\* the entries admitted since the call began and stays as it is; the dump
\* merge touches the file of the date it read only and writes the content
\* the call found followed by new_entries; the index merge touches the
\* files of the letters of new_entries only.
C17_PersistOncePerRun ==
    [][ /\ dumps' # dumps => \E p \in Procs : pc[p] \in {"dump_open", "dump_write"}
        /\ dict' # dict => \E p \in Procs : pc[p] \in {"letter_open", "letter_write"}
        /\ stats' # stats => \E p \in Procs : pc[p] \in {"stats_open", "stats_write"}
        /\ \A p \in Procs :
              /\ pc'[p] \in PersistPcs
                    => /\ batch_i'[p] = NumBatches
                       /\ new_entries'[p] # <<>>
              /\ (pc'[p] = "save_dump" /\ pc[p] # "save_dump")
                    => pc[p] \in {"resp_none", "resp_nolist", "resp_list"}
              /\ (pc[p] \in PersistPcs
                    /\ (pc'[p] # pc[p] \/ letter_todo'[p] # letter_todo[p]
                          \/ listing'[p] # listing[p]))
                    => /\ PersistProgress(p)' > PersistProgress(p)
                       /\ pc'[p] \in PersistPcs \cup {"done", "crashed"}
              /\ (pc[p] = "save_dump" /\ pc'[p] # "save_dump")
                    => /\ EntryIds(new_entries[p]) = seen_defids[p] \ seen_at_call[p]
                       /\ Len(new_entries[p]) = Cardinality(EntryIds(new_entries[p]))
              /\ (pc[p] \in {"dump_open", "dump_write"} /\ pc'[p] # pc[p])
                    => /\ \A d \in Dates \ {dump_date[p]} : dumps'[d] = dumps[d]
                       /\ \/ dumps'[dump_date[p]].st = "corrupt"
                          \/ dumps'[dump_date[p]]
                                = DumpFile(MergeDump(disk_at_call[p].dumps[dump_date[p]],
                                                     new_entries[p]))
              /\ (pc[p] \in {"letter_open", "letter_write"} /\ pc'[p] # pc[p])
                    => /\ Head(letter_todo[p]) \in AffectedLetters(p)
                       /\ \A l \in Letters \ {Head(letter_todo[p])} : dict'[l] = dict[l]
              /\ pc[p] \in PersistPcs => new_entries'[p] = new_entries[p]
              /\ (pc[p] \in {"done", "crashed", "ready"} /\ pc'[p] # pc[p])
                    => \/ pc'[p] \in {"idle", "ready", "load"}
                       \/ pc'[p] = "request" /\ runs' = runs + 1
      ]_vars

\* fetch_and_store has returned 2 after one write of today's dump file, which
\* holds the two entries, and of the files of both letters.
C17_Witness ==
    /\ pc[1] = "done"
    /\ runs = 1
    /\ ret[1] = 2
    /\ dumps[today].st = "ok" /\ Len(dumps[today].data) = 2
    /\ \A l \in Letters : dict[l].st = "ok"
    /\ stats.st = "ok"

\* ------------------------------------------------------------------ C18
\* Two instances against the same storage directory, their steps interleaved
\* in any order.
NextConc == Step(1) \/ Step(2) \/ NextDay

SpecConc == Init /\ [][NextConc]_vars

\* the places of the dump files that hold defid id
DumpOccurrences(id) ==
    UNION { {<<d, i>> : i \in DumpPositions(d, id)} : d \in Dates }

\* the places of the letter index that hold defid id
IndexOccurrences(id) ==
    UNION { UNION { {<<l, w, i>> : i \in IndexPositions(l, w, id)} :
                        w \in IndexWords(l) } : l \in Letters }

\* at most one instance is alive
OneAtATime == \A p, q \in Procs : p # q => (pc[p] = "idle" \/ pc[q] = "idle")

\* Some defid is stored twice in the daily dumps: the state two overlapping
\* instances reach under SpecConc when both have bootstrapped before either
\* has written.
C18_SameIdTwiceInDump == \E id \in DefIds : Cardinality(DumpOccurrences(id)) >= 2

\* An entry a returned call has written to a dump file is in no dump file,
\* although the file parses: the state two overlapping instances reach under
\* SpecConc when one writes the list it had read before the other's merge.
C18_EntryLost ==
    \E p \in Procs :
        /\ pc[p] = "done"
        /\ dump_date[p] \in Dates
        /\ dumps[dump_date[p]].st = "ok"
        /\ \E id \in EntryIds(new_entries[p]) \ unsaved[p] : DumpFilesWith(id) = {}

\* C18, for instances that run one at a time: no defid is stored twice in
\* the daily dumps and none is stored twice in the letter index.
C18_OneAtATimeSafe ==
    OneAtATime
        => \A id \in DefIds :
              /\ Cardinality(DumpOccurrences(id)) <= 1
              /\ Cardinality(IndexOccurrences(id)) <= 1

\* ------------------------------------------------------------------ C19
\* C19: whenever no instance is inside fetch_and_store, the defids the daily
\* dump files hold are the defids the letter index files hold.
C19_DumpAndIndexRedundant ==
    (\A p \in Procs : pc[p] \in {"idle", "ready", "done"}) => StoredIds = IndexIds

\* ------------------------------------------------------------------ C20
\* the entries by which dump file d has grown since instance p entered
\* fetch_and_store
DumpGrowth(p, d) == DumpLen(dumps[d]) - DumpLen(disk_at_call[p].dumps[d])

\* the date whose file the dump merge of the call of instance p worked on: the
\* date it read, or the date of the return when the merge did not run
MergeDate(p) == IF dump_date[p] \in Dates THEN dump_date[p] ELSE today

\* C20 as stated: when fetch_and_store has returned, the value returned is
\* the number of defids added to seen_defids during the call and the number
\* of entries by which the current date's dump file grew during the call.
C20_ReturnCountsAdmittedAndStored ==
    \A p \in Procs :
        pc[p] = "done"
            => /\ ret[p] = Cardinality(seen_defids[p]) - Cardinality(seen_at_call[p])
               /\ ret[p] = DumpGrowth(p, MergeDate(p))

\* C20 amended: when fetch_and_store has returned, the value returned is the
\* number of defids added to seen_defids during the call; the dump file of
\* the date the merge read has grown by that number of entries, unless the
\* dump write of the call was skipped because validation failed, in which
\* case it has not grown; no other dump file has grown.
C20_ReturnCountsAdmitted ==
    \A p \in Procs :
        pc[p] = "done"
            => /\ seen_at_call[p] \subseteq seen_defids[p]
               /\ ret[p] = Cardinality(seen_defids[p] \ seen_at_call[p])
               /\ DumpGrowth(p, MergeDate(p)) =
                     IF new_entries[p] # <<>> /\ EntryIds(new_entries[p]) \subseteq unsaved[p]
                     THEN 0
                     ELSE ret[p]
               /\ \A d \in Dates \ {MergeDate(p)} : DumpGrowth(p, d) = 0

\* A second call has returned 1: it met one known and one new defid, and the
\* dump file of the date its merge read has grown from one entry to two.
C20_Witness ==
    /\ pc[1] = "done"
    /\ runs = 2
    /\ ret[1] = 1
    /\ seen_at_call[1] # {}
    /\ DumpLen(disk_at_call[1].dumps[MergeDate(1)]) = 1
    /\ DumpLen(dumps[MergeDate(1)]) = 2


====
